---- MODULE Spec2Model ----
(***************************************************************************)
(* Model of datadog_checks/sqlserver/connection.py: the Connection class   *)
(* that keeps the raw SQL Server connections of one check instance in the  *)
(* dict _conns, keyed by a string built from the access info.              *)
(*                                                                         *)
(* Python strings are sequences of one-character strings, so that          *)
(* str.format, str.replace and the "in" test on messages are computed      *)
(* character by character.  None is the distinguished value None below.    *)
(***************************************************************************)
EXTENDS Integers, Sequences, FiniteSets, TLC

VARIABLES driver, instance, conns, handles, existing_databases, scopes, last

vars == <<driver, instance, conns, handles, existing_databases, scopes, last>>

(***************************************************************************)
(* Bounds of the model.                                                    *)
(***************************************************************************)
\* physical connections the driver hands out in one behaviour
MaxHandles == 2
\* length of a configured password
MaxPwLen == 1
\* length of the text of a driver exception
MaxExcLen == 1
\* nesting depth of the scoped-session helpers
MaxScopes == 1

(***************************************************************************)
(* Python values.                                                          *)
(***************************************************************************)
\* Python's None; "<None>" is not a character, so no string equals it
None == <<"<None>">>

\* str(x) as '{}'.format(x) computes it: None prints as the text None
NoneText == <<"N","o","n","e">>

Str(x) == IF x = None THEN NoneText ELSE x

\* truth value of an optional string: None and '' are false
Truthy(x) == x # None /\ x # <<>>

\* t in s, for strings
Contains(s, t) ==
    \E i \in 0..(Len(s) - Len(t)) : SubSeq(s, i + 1, i + Len(t)) = t

\* the strings of length at most n over the characters of A
RECURSIVE StringsUpTo(_, _)
StringsUpTo(A, n) ==
    IF n = 0 THEN {<<>>}
    ELSE LET shorter == StringsUpTo(A, n - 1)
         IN  shorter \cup {Append(s, c) : s \in shorter, c \in A}

\* s.replace(old, new) for a non-empty old: leftmost occurrences, not overlapping
RECURSIVE ReplaceFrom(_, _, _, _)
ReplaceFrom(s, old, new, i) ==
    IF i > Len(s) THEN <<>>
    ELSE IF i + Len(old) - 1 <= Len(s) /\ SubSeq(s, i, i + Len(old) - 1) = old
         THEN new \o ReplaceFrom(s, old, new, i + Len(old))
         ELSE <<s[i]>> \o ReplaceFrom(s, old, new, i + 1)

\* s.replace('', new): new is put before every character and at the end
RECURSIVE ReplaceEmpty(_, _, _)
ReplaceEmpty(s, new, i) ==
    IF i > Len(s) THEN new
    ELSE new \o <<s[i]>> \o ReplaceEmpty(s, new, i + 1)

\* str.replace
Replace(s, old, new) ==
    IF old = <<>> THEN ReplaceEmpty(s, new, 1) ELSE ReplaceFrom(s, old, new, 1)

\* the body of a string literal as repr writes it: a backslash is doubled
RECURSIVE Escape(_)
Escape(s) ==
    IF s = <<>> THEN <<>>
    ELSE (IF Head(s) = "\\" THEN <<"\\","\\">> ELSE <<Head(s)>>) \o Escape(Tail(s))

\* repr(e) of a driver exception whose only argument is the text t
ReprExc(t) == <<"E","r","r","o","r","(","'">> \o Escape(t) \o <<"'",")">>

(***************************************************************************)
(* Constants of the class.                                                 *)
(***************************************************************************)
DEFAULT_DATABASE == <<"m","a","s","t","e","r">>

DEFAULT_DRIVER == <<"S","Q","L"," ","S","e","r","v","e","r">>

DEFAULT_DB_KEY == <<"d","a","t","a","b","a","s","e">>

DefaultHost == <<"1","2","7",".","0",".","0",".","1",",","1","4","3","3">>

CursorMissPrefix == <<"C","a","n","n","o","t"," ","f","i","n","d"," ","a","n"," ","o","p","e","n","e","d"," ","c","o","n","n","e","c","t","i","o","n"," ","f","o","r"," ","h","o","s","t",":"," ">>

ConnectFailPrefix == <<"U","n","a","b","l","e"," ","t","o"," ","c","o","n","n","e","c","t"," ","t","o"," ","S","Q","L"," ","S","e","r","v","e","r"," ","f","o","r"," ","i","n","s","t","a","n","c","e"," ">>

Mask == <<"*","*","*","*","*","*">>

OK == "OK"

CRITICAL == "CRITICAL"

(***************************************************************************)
(* Configurations and driver behaviour the model runs over.                *)
(***************************************************************************)
\* configured passwords: absent, or a string over the characters h and *
Passwords == {None} \cup StringsUpTo({"h", "*"}, MaxPwLen)

\* texts of the exceptions the driver raises from connect
ExcTexts == StringsUpTo({"h", "*", "\\"}, MaxExcLen)

\* names the catalog query can return
DbNames == {DEFAULT_DATABASE, <<"d">>}

\* the instance configurations of the model: every dsn and database, which
\* decide whether the two targets share a key, and every host and password,
\* which decide the messages
Instances ==
    [dsn : {None, <<"s">>}, host : {<<"h">>}, username : {None},
     password : {<<"h">>}, database : {None, <<"d">>, DEFAULT_DATABASE}, driver : {None}]
    \cup
    [dsn : {None}, host : {None, <<"h">>}, username : {None},
     password : Passwords, database : {<<"d">>}, driver : {None}]

\* the (db_key, db_name) pairs callers pass
Targets ==
    {[db_key |-> DEFAULT_DB_KEY, db_name |-> None],
     [db_key |-> None, db_name |-> DEFAULT_DATABASE]}

\* what a close() call on a raw connection can do: close it, or raise and
\* leave the connection either still open or closed
CloseOutcomes == {"closed", "raised_open", "raised_closed"}

\* what connect() can do: return a new raw connection, or raise with text exc
ConnectOutcomes ==
    {[ok |-> TRUE, exc |-> <<>>]} \cup [ok : {FALSE}, exc : ExcTexts]

\* what the catalog query can do: ok says whether execute and the iteration
\* finished, rows are the names read before it stopped, closeOk whether
\* cursor.close() returns afterwards
QueryOutcomes == [ok : BOOLEAN, rows : SUBSET DbNames, closeOk : BOOLEAN]

(***************************************************************************)
(* Access info and connection key.                                         *)
(***************************************************************************)
\* self.instance.get(db_key): only the default key is configured
InstanceGet(inst, db_key) ==
    IF db_key = DEFAULT_DB_KEY THEN inst.database ELSE None

\* _get_access_info applying the defaults whether or not a dsn is configured
_get_access_info_defaults_with_dsn(inst, db_key, db_name) ==
    LET database == IF db_name = None THEN InstanceGet(inst, db_key) ELSE db_name
    IN  [dsn |-> inst.dsn,
         host |-> IF ~Truthy(inst.host) THEN DefaultHost ELSE inst.host,
         username |-> inst.username,
         password |-> inst.password,
         database |-> IF ~Truthy(database) THEN DEFAULT_DATABASE ELSE database,
         driver |-> IF ~Truthy(inst.driver) THEN DEFAULT_DRIVER ELSE inst.driver]

_get_access_info(inst, db_key, db_name) ==
    LET database == IF db_name = None THEN InstanceGet(inst, db_key) ELSE db_name
        nodsn == ~Truthy(inst.dsn)
    IN  [dsn |-> inst.dsn,
         host |-> IF nodsn /\ ~Truthy(inst.host) THEN DefaultHost ELSE inst.host,
         username |-> inst.username,
         password |-> inst.password,
         database |-> IF nodsn /\ ~Truthy(database) THEN DEFAULT_DATABASE ELSE database,
         driver |-> IF nodsn /\ ~Truthy(inst.driver) THEN DEFAULT_DRIVER ELSE inst.driver]

_conn_key(inst, db_key, db_name) ==
    LET a == _get_access_info(inst, db_key, db_name)
    IN  Str(a.dsn) \o <<":">> \o Str(a.host) \o <<":">> \o Str(a.username) \o <<":">>
        \o Str(a.password) \o <<":">> \o Str(a.database) \o <<":">> \o Str(a.driver)

\* _conn_key for every configuration and target of the model, computed once
\* (f @@ <<>> is f held as a table)
ConnKeys ==
    [x \in Instances \X Targets |-> _conn_key(x[1], x[2].db_key, x[2].db_name)] @@ <<>>

conn_key_of(inst, db_key, db_name) ==
    ConnKeys[<<inst, [db_key |-> db_key, db_name |-> db_name]>>]

(***************************************************************************)
(* Connector and ADO provider selection.  driver holds what __init__ keeps *)
(* on the object: valid_connectors, connector, adoprovider and timeout.    *)
(* A configuration key with the value None is a key that is not there.     *)
(***************************************************************************)
UpperLetters == <<"A","B","C","D","E","F","G","H","I","J","K","L","M","N","O","P","Q","R","S","T","U","V","W","X","Y","Z">>

LowerLetters == <<"a","b","c","d","e","f","g","h","i","j","k","l","m","n","o","p","q","r","s","t","u","v","w","x","y","z">>

\* str.lower and str.upper, letter by letter
Lower(s) ==
    [i \in 1..Len(s) |->
        IF \E k \in 1..26 : UpperLetters[k] = s[i]
        THEN LowerLetters[CHOOSE k \in 1..26 : UpperLetters[k] = s[i]] ELSE s[i]]

Upper(s) ==
    [i \in 1..Len(s) |->
        IF \E k \in 1..26 : LowerLetters[k] = s[i]
        THEN UpperLetters[CHOOSE k \in 1..26 : LowerLetters[k] = s[i]] ELSE s[i]]

Digits == <<"0","1","2","3","4","5","6","7","8","9">>

\* int(s) for a string of decimal digits
RECURSIVE ParseInt(_)
ParseInt(s) ==
    IF s = <<>> THEN 0
    ELSE 10 * ParseInt(SubSeq(s, 1, Len(s) - 1))
         + (CHOOSE d \in 0..9 : Digits[d + 1] = s[Len(s)])

DEFAULT_COMMAND_TIMEOUT == 5

Adodbapi == <<"a","d","o","d","b","a","p","i">>

Odbc == <<"o","d","b","c">>

valid_adoproviders == {<<"S","Q","L","O","L","E","D","B">>, <<"M","S","O","L","E","D","B","S","Q","L">>, <<"S","Q","L","N","C","L","I","1","1">>}

default_adoprovider == <<"S","Q","L","O","L","E","D","B">>

\* the driver modules the import at the top of the file may have loaded
Modules == {"adodbapi", "pyodbc"}

\* __init__: loaded are the modules that could be imported, init_config the
\* record [connector, adoprovider] of init_config, inst the instance config
__init__(loaded, init_config, inst) ==
    LET valid_connectors ==
            (IF "adodbapi" \in loaded THEN {Adodbapi} ELSE {})
            \cup (IF "pyodbc" \in loaded THEN {Odbc} ELSE {})
        connector ==
            IF init_config.connector = None THEN Adodbapi ELSE init_config.connector
        adoprovider ==
            IF init_config.adoprovider = None THEN default_adoprovider
            ELSE init_config.adoprovider
    IN  [loaded |-> loaded,
         valid_connectors |-> valid_connectors,
         connector |-> IF Lower(connector) \notin valid_connectors
                       THEN Adodbapi ELSE connector,
         adoprovider |-> IF Upper(adoprovider) \notin valid_adoproviders
                         THEN default_adoprovider ELSE adoprovider,
         timeout |-> IF inst.command_timeout = None THEN DEFAULT_COMMAND_TIMEOUT
                     ELSE ParseInt(inst.command_timeout)]

NoInitConfig == [connector |-> None, adoprovider |-> None]

\* an object built with both modules loaded and nothing configured
DefaultDriver == __init__(Modules, NoInitConfig, [command_timeout |-> None])

LogInvalidConnector == "Invalid database connector"

LogInvalidProvider == "Invalid ADO provider"

\* get_connector returning the instance's connector as it is configured
get_connector_unvalidated(drv, inst) ==
    [value |-> IF inst.connector = None THEN drv.connector ELSE inst.connector,
     raised |-> "", log |-> {}]

\* get_connector: value is what it returns; raised is "KeyError" when the
\* debug line reads self.instance['host'] and the instance has no host
get_connector(drv, inst) ==
    LET connector == IF inst.connector = None THEN drv.connector ELSE inst.connector
    IN  IF connector = drv.connector
        THEN [value |-> connector, raised |-> "", log |-> {}]
        ELSE IF Lower(connector) \notin drv.valid_connectors
             THEN [value |-> drv.connector, raised |-> "", log |-> {LogInvalidConnector}]
             ELSE IF inst.host = None
                  THEN [value |-> None, raised |-> "KeyError", log |-> {}]
                  ELSE [value |-> connector, raised |-> "", log |-> {}]

\* _get_adoprovider: an instance without the key gets the default of the
\* class, not the provider __init__ kept
_get_adoprovider(drv, inst) ==
    LET provider ==
            IF inst.adoprovider = None THEN default_adoprovider ELSE inst.adoprovider
    IN  IF provider = drv.adoprovider
        THEN [value |-> provider, raised |-> "", log |-> {}]
        ELSE IF Upper(provider) \notin valid_adoproviders
             THEN [value |-> drv.adoprovider, raised |-> "", log |-> {LogInvalidProvider}]
             ELSE IF inst.host = None
                  THEN [value |-> None, raised |-> "KeyError", log |-> {}]
                  ELSE [value |-> provider, raised |-> "", log |-> {}]

(***************************************************************************)
(* Connection strings and the call to the driver's connect.                *)
(***************************************************************************)
\* s.split(c) for a one-character separator c
RECURSIVE Split(_, _)
Split(s, c) ==
    IF \A i \in 1..Len(s) : s[i] # c THEN <<s>>
    ELSE LET i == CHOOSE j \in 1..Len(s) :
                      s[j] = c /\ \A k \in 1..(j - 1) : s[k] # c
         IN  <<SubSeq(s, 1, i - 1)>> \o Split(SubSeq(s, i + 1, Len(s)), c)

\* the six fields a builder works on: unpacked from conn_key.split(":") when
\* a conn_key is given, which raises ValueError unless there are six parts,
\* and read from the instance otherwise
BuilderFields(inst, db_key, conn_key, db_name) ==
    IF Truthy(conn_key)
    THEN LET p == Split(conn_key, ":")
         IN  IF Len(p) # 6
             THEN [raised |-> "ValueError", a |-> <<>>]
             ELSE [raised |-> "",
                   a |-> [dsn |-> p[1], host |-> p[2], username |-> p[3],
                          password |-> p[4], database |-> p[5], driver |-> p[6]]]
    ELSE [raised |-> "", a |-> _get_access_info(inst, db_key, db_name)]

\* 'name={};'.format(x) when x is true, '' otherwise
Segment(name, x) == IF Truthy(x) THEN name \o Str(x) \o <<";">> ELSE <<>>

_conn_string_odbc(inst, db_key, conn_key, db_name) ==
    LET f == BuilderFields(inst, db_key, conn_key, db_name)
    IN  IF f.raised # "" THEN [raised |-> f.raised, value |-> <<>>]
        ELSE [raised |-> "",
              value |-> Segment(<<"D","S","N","=">>, f.a.dsn)
                        \o Segment(<<"D","R","I","V","E","R","=">>, f.a.driver)
                        \o Segment(<<"S","e","r","v","e","r","=">>, f.a.host)
                        \o Segment(<<"D","a","t","a","b","a","s","e","=">>, f.a.database)
                        \o Segment(<<"U","I","D","=">>, f.a.username)
                        \o Segment(<<"P","W","D","=">>, f.a.password)]

IntegratedSecurity == <<"I","n","t","e","g","r","a","t","e","d"," ","S","e","c","u","r","i","t","y","=","S","S","P","I",";">>

\* _conn_string_adodbapi choosing integrated security by the username alone
_conn_string_adodbapi_sspi_without_username(drv, inst, db_key, conn_key, db_name) ==
    LET f == BuilderFields(inst, db_key, conn_key, db_name)
        p == _get_adoprovider(drv, inst)
    IN  IF f.raised # "" THEN [raised |-> f.raised, value |-> <<>>]
        ELSE IF p.raised # "" THEN [raised |-> p.raised, value |-> <<>>]
        ELSE [raised |-> "",
              value |-> <<"P","r","o","v","i","d","e","r","=">> \o p.value \o <<";">>
                        \o <<"D","a","t","a"," ","S","o","u","r","c","e","=">> \o Str(f.a.host) \o <<";">>
                        \o <<"I","n","i","t","i","a","l"," ","C","a","t","a","l","o","g","=">> \o Str(f.a.database) \o <<";">>
                        \o Segment(<<"U","s","e","r"," ","I","D","=">>, f.a.username)
                        \o Segment(<<"P","a","s","s","w","o","r","d","=">>, f.a.password)
                        \o (IF ~Truthy(f.a.username) THEN IntegratedSecurity ELSE <<>>)]

_conn_string_adodbapi(drv, inst, db_key, conn_key, db_name) ==
    LET f == BuilderFields(inst, db_key, conn_key, db_name)
        p == _get_adoprovider(drv, inst)
    IN  IF f.raised # "" THEN [raised |-> f.raised, value |-> <<>>]
        ELSE IF p.raised # "" THEN [raised |-> p.raised, value |-> <<>>]
        ELSE [raised |-> "",
              value |-> <<"P","r","o","v","i","d","e","r","=">> \o p.value \o <<";">>
                        \o <<"D","a","t","a"," ","S","o","u","r","c","e","=">> \o Str(f.a.host) \o <<";">>
                        \o <<"I","n","i","t","i","a","l"," ","C","a","t","a","l","o","g","=">> \o Str(f.a.database) \o <<";">>
                        \o Segment(<<"U","s","e","r"," ","I","D","=">>, f.a.username)
                        \o Segment(<<"P","a","s","s","w","o","r","d","=">>, f.a.password)
                        \o (IF ~Truthy(f.a.username) /\ ~Truthy(f.a.password)
                            THEN IntegratedSecurity ELSE <<>>)]

NoCall ==
    [made |-> FALSE, raised |-> "", module |-> "", cs |-> <<>>, keywords |-> {},
     timeout |-> 0, autocommit |-> FALSE]

\* the call open_db_connections makes to connect: the module it is made on,
\* the connection string, the names of the options passed and their values
\* (autocommit is FALSE when it is not passed).  It is not made when
\* building its arguments raises, or when the module was not loaded and the
\* name is None (AttributeError)
ConnectCall(drv, inst, db_key, db_name) ==
    LET prefix == IF inst.connection_string = None THEN <<>> ELSE inst.connection_string
        cs == IF prefix # <<>> THEN prefix \o <<";">> ELSE <<>>
        connector == get_connector(drv, inst)
        ado == _conn_string_adodbapi(drv, inst, db_key, None, db_name)
        odbc == _conn_string_odbc(inst, db_key, None, db_name)
    IN  IF connector.raised # "" THEN [NoCall EXCEPT !.raised = connector.raised]
        ELSE IF connector.value = Adodbapi
        THEN IF ado.raised # "" THEN [NoCall EXCEPT !.raised = ado.raised]
             ELSE IF "adodbapi" \notin drv.loaded
                  THEN [NoCall EXCEPT !.raised = "AttributeError"]
                  ELSE [made |-> TRUE, raised |-> "", module |-> "adodbapi",
                        cs |-> cs \o ado.value,
                        keywords |-> {"timeout", "autocommit"},
                        timeout |-> drv.timeout, autocommit |-> TRUE]
        ELSE IF "pyodbc" \notin drv.loaded
             THEN [NoCall EXCEPT !.raised = "AttributeError"]
             ELSE [made |-> TRUE, raised |-> "", module |-> "pyodbc",
                   cs |-> cs \o odbc.value,
                   keywords |-> {"timeout"},
                   timeout |-> drv.timeout, autocommit |-> FALSE]

(***************************************************************************)
(* The operations, as functions of the pool cn (_conns) and of the raw     *)
(* connections hs the driver has handed out.  A raw connection is a record *)
(* [key, state]; its identity is its index in hs.  Its state is "open",    *)
(* "closed", or "close_raised" when close() raised and left it open.       *)
(* Each operation also gives the lines it wrote to self.log.               *)
(***************************************************************************)
\* rawconn.close() with the given outcome
CloseHandle(hs, h, outcome) ==
    [hs EXCEPT ![h].state = IF outcome = "raised_open" /\ @ # "closed"
                            THEN "close_raised" ELSE "closed"]

\* self._conns[key] = h
Store(cn, key, h) ==
    [k \in DOMAIN cn \cup {key} |-> IF k = key THEN h ELSE cn[k]]

\* del self._conns[key]
Evict(cn, key) == [k \in DOMAIN cn \ {key} |-> cn[k]]

\* the lines of self.log that tell a failure
LogStaleClose == "info: Could not close adodbapi db connection"

LogClose == "warning: Could not close adodbapi db connection"

LogCursorClose == "warning: Could not close adodbapi cursor"

LogQuery == "error: Failed to check if database exists"

\* message.replace(password, "*" * 6) when a password is configured
Scrub(inst, message) ==
    IF inst.password # None THEN Replace(message, inst.password, Mask) ELSE message

\* the message of the except branch of open_db_connections
ConnectFailMessage(inst, a, exc) ==
    Scrub(inst, ConnectFailPrefix \o Str(a.host) \o <<" ","-"," ">> \o Str(a.database)
                \o <<":"," ">> \o ReprExc(exc))

\* ConnectFailMessage for every configuration, target and exception text of
\* the model, computed once
ConnectFailMessages ==
    [x \in Instances \X Targets \X ExcTexts |->
        ConnectFailMessage(x[1], _get_access_info(x[1], x[2].db_key, x[2].db_name), x[3])]
    @@ <<>>

\* service_check_handler(status, host, database, message)
Report(status, host, database, message) ==
    [status |-> status, host |-> host, database |-> database, message |-> message]

\* open_db_connections overwriting the entry without closing the stale
\* connection
open_db_connections_no_stale_close(inst, cn, hs, db_key, db_name, connect, staleClose) ==
    LET conn_key == conn_key_of(inst, db_key, db_name)
        a == _get_access_info(inst, db_key, db_name)
        message == ConnectFailMessages[<<inst, [db_key |-> db_key, db_name |-> db_name], connect.exc>>]
    IN  IF connect.ok
        THEN [conns |-> Store(cn, conn_key, Len(hs) + 1),
              handles |-> Append(hs, [key |-> conn_key, state |-> "open"]),
              closed |-> {},
              log |-> {},
              reports |-> <<Report(OK, a.host, a.database, None)>>,
              raised |-> "",
              message |-> <<>>]
        ELSE [conns |-> cn, handles |-> hs, closed |-> {}, log |-> {},
              reports |-> <<Report(CRITICAL, a.host, a.database, message)>>,
              raised |-> "SQLConnectionError",
              message |-> message]

\* open_db_connections keeping the connection the pool already has for the
\* key and dropping the new one
open_db_connections_reuse(inst, cn, hs, db_key, db_name, connect, staleClose) ==
    LET conn_key == conn_key_of(inst, db_key, db_name)
        a == _get_access_info(inst, db_key, db_name)
        message == ConnectFailMessages[<<inst, [db_key |-> db_key, db_name |-> db_name], connect.exc>>]
    IN  IF connect.ok
        THEN [conns |-> IF conn_key \in DOMAIN cn THEN cn
                        ELSE Store(cn, conn_key, Len(hs) + 1),
              handles |-> Append(hs, [key |-> conn_key,
                                      state |-> IF conn_key \in DOMAIN cn
                                                THEN "closed" ELSE "open"]),
              closed |-> IF conn_key \in DOMAIN cn THEN {Len(hs) + 1} ELSE {},
              log |-> {},
              reports |-> <<Report(OK, a.host, a.database, None)>>,
              raised |-> "",
              message |-> <<>>]
        ELSE [conns |-> cn, handles |-> hs, closed |-> {}, log |-> {},
              reports |-> <<Report(CRITICAL, a.host, a.database, message)>>,
              raised |-> "SQLConnectionError",
              message |-> message]

\* open_db_connections raising without telling the health callback
open_db_connections_unreported_failure(inst, cn, hs, db_key, db_name, connect, staleClose) ==
    LET conn_key == conn_key_of(inst, db_key, db_name)
        a == _get_access_info(inst, db_key, db_name)
        hs1 == Append(hs, [key |-> conn_key, state |-> "open"])
        message == ConnectFailMessages[<<inst, [db_key |-> db_key, db_name |-> db_name], connect.exc>>]
    IN  IF connect.ok
        THEN [conns |-> Store(cn, conn_key, Len(hs) + 1),
              handles |-> IF conn_key \in DOMAIN cn
                          THEN CloseHandle(hs1, cn[conn_key], staleClose)
                          ELSE hs1,
              closed |-> IF conn_key \in DOMAIN cn THEN {cn[conn_key]} ELSE {},
              log |-> IF conn_key \in DOMAIN cn /\ staleClose # "closed"
                      THEN {LogStaleClose} ELSE {},
              reports |-> <<Report(OK, a.host, a.database, None)>>,
              raised |-> "",
              message |-> <<>>]
        ELSE [conns |-> cn, handles |-> hs, closed |-> {}, log |-> {},
              reports |-> <<>>,
              raised |-> "SQLConnectionError",
              message |-> message]

\* open_db_connections closing and dropping the entry of the key when
\* connect raises
open_db_connections_drops_on_failure(inst, cn, hs, db_key, db_name, connect, staleClose) ==
    LET conn_key == conn_key_of(inst, db_key, db_name)
        a == _get_access_info(inst, db_key, db_name)
        rawconn == Len(hs) + 1
        hs1 == Append(hs, [key |-> conn_key, state |-> "open"])
        message == ConnectFailMessages[<<inst, [db_key |-> db_key, db_name |-> db_name], connect.exc>>]
    IN  IF connect.ok
        THEN [conns |-> Store(cn, conn_key, rawconn),
              handles |-> IF conn_key \in DOMAIN cn
                          THEN CloseHandle(hs1, cn[conn_key], staleClose)
                          ELSE hs1,
              closed |-> IF conn_key \in DOMAIN cn THEN {cn[conn_key]} ELSE {},
              log |-> IF conn_key \in DOMAIN cn /\ staleClose # "closed"
                      THEN {LogStaleClose} ELSE {},
              reports |-> <<Report(OK, a.host, a.database, None)>>,
              raised |-> "",
              message |-> <<>>]
        ELSE [conns |-> IF conn_key \in DOMAIN cn THEN Evict(cn, conn_key) ELSE cn,
              handles |-> IF conn_key \in DOMAIN cn
                          THEN CloseHandle(hs, cn[conn_key], "closed") ELSE hs,
              closed |-> IF conn_key \in DOMAIN cn THEN {cn[conn_key]} ELSE {},
              log |-> {},
              reports |-> <<Report(CRITICAL, a.host, a.database, message)>>,
              raised |-> "SQLConnectionError",
              message |-> message]

open_db_connections(inst, cn, hs, db_key, db_name, connect, staleClose) ==
    LET conn_key == conn_key_of(inst, db_key, db_name)
        a == _get_access_info(inst, db_key, db_name)
        rawconn == Len(hs) + 1
        hs1 == Append(hs, [key |-> conn_key, state |-> "open"])
        message == ConnectFailMessages[<<inst, [db_key |-> db_key, db_name |-> db_name], connect.exc>>]
    IN  IF connect.ok
        THEN [conns |-> Store(cn, conn_key, rawconn),
              handles |-> IF conn_key \in DOMAIN cn
                          THEN CloseHandle(hs1, cn[conn_key], staleClose)
                          ELSE hs1,
              closed |-> IF conn_key \in DOMAIN cn THEN {cn[conn_key]} ELSE {},
              log |-> IF conn_key \in DOMAIN cn /\ staleClose # "closed"
                      THEN {LogStaleClose} ELSE {},
              reports |-> <<Report(OK, a.host, a.database, None)>>,
              raised |-> "",
              message |-> <<>>]
        ELSE [conns |-> cn,
              handles |-> hs,
              closed |-> {},
              log |-> {},
              reports |-> <<Report(CRITICAL, a.host, a.database, message)>>,
              raised |-> "SQLConnectionError",
              message |-> message]

\* close_db_connections deleting the entry whether or not close() returned
close_db_connections_always_evicts(inst, cn, hs, db_key, db_name, outcome) ==
    LET conn_key == conn_key_of(inst, db_key, db_name)
    IN  IF conn_key \notin DOMAIN cn
        THEN [conns |-> cn, handles |-> hs, closed |-> {}, log |-> {}, raised |-> ""]
        ELSE [conns |-> Evict(cn, conn_key),
              handles |-> CloseHandle(hs, cn[conn_key], outcome),
              closed |-> {cn[conn_key]},
              log |-> IF outcome = "closed" THEN {} ELSE {LogClose},
              raised |-> ""]

close_db_connections(inst, cn, hs, db_key, db_name, outcome) ==
    LET conn_key == conn_key_of(inst, db_key, db_name)
    IN  IF conn_key \notin DOMAIN cn
        THEN [conns |-> cn, handles |-> hs, closed |-> {}, log |-> {}, raised |-> ""]
        ELSE [conns |-> IF outcome = "closed" THEN Evict(cn, conn_key) ELSE cn,
              handles |-> CloseHandle(hs, cn[conn_key], outcome),
              closed |-> {cn[conn_key]},
              log |-> IF outcome = "closed" THEN {} ELSE {LogClose},
              raised |-> ""]

\* get_cursor letting the KeyError text, which is the key, into its message
get_cursor_key_in_message(inst, cn, hs, db_key, db_name, cursorOk) ==
    LET conn_key == conn_key_of(inst, db_key, db_name)
    IN  IF conn_key \notin DOMAIN cn
        THEN [raised |-> "SQLConnectionError",
              message |-> CursorMissPrefix \o conn_key,
              handle |-> 0]
        ELSE IF cursorOk /\ hs[cn[conn_key]].state # "closed"
        THEN [raised |-> "", message |-> <<>>, handle |-> cn[conn_key]]
        ELSE [raised |-> "DriverError", message |-> <<>>, handle |-> 0]

\* cursorOk: whether conn.cursor() returns; a closed connection gives no cursor
get_cursor(inst, cn, hs, db_key, db_name, cursorOk) ==
    LET conn_key == conn_key_of(inst, db_key, db_name)
    IN  IF conn_key \notin DOMAIN cn
        THEN [raised |-> "SQLConnectionError",
              message |-> CursorMissPrefix \o Str(inst.host),
              handle |-> 0]
        ELSE IF cursorOk /\ hs[cn[conn_key]].state # "closed"
        THEN [raised |-> "", message |-> <<>>, handle |-> cn[conn_key]]
        ELSE [raised |-> "DriverError", message |-> <<>>, handle |-> 0]

\* cursor.close() raised: logged, not raised again
close_cursor(closeOk) == IF closeOk THEN {} ELSE {LogCursorClose}

NoResult == [exists |-> FALSE, context |-> <<>>]

\* the existence cache: set is FALSE while existing_databases is None
NoCache == [set |-> FALSE, names |-> {}]

\* _check_db_exists running the catalog query on every call
_check_db_exists_requery(inst, cn, hs, cache, cursorOk, q) ==
    LET a == _get_access_info(inst, DEFAULT_DB_KEY, None)
        context == Str(a.host) \o <<" ","-"," ">> \o Str(a.database)
        cur == get_cursor(inst, cn, hs, None, DEFAULT_DATABASE, cursorOk)
        filled == [set |-> TRUE, names |-> q.rows]
    IN  IF cur.raised # ""
        THEN [cache |-> cache, raised |-> cur.raised, message |-> cur.message,
              queried |-> FALSE, log |-> {}, result |-> NoResult]
        ELSE IF ~q.ok
        THEN [cache |-> filled, raised |-> "", message |-> <<>>, queried |-> TRUE,
              log |-> {LogQuery} \cup close_cursor(q.closeOk),
              result |-> [exists |-> FALSE, context |-> context]]
        ELSE [cache |-> filled, raised |-> "", message |-> <<>>, queried |-> TRUE,
              log |-> close_cursor(q.closeOk),
              result |-> [exists |-> a.database \in q.rows, context |-> context]]

_check_db_exists(inst, cn, hs, cache, cursorOk, q) ==
    LET a == _get_access_info(inst, DEFAULT_DB_KEY, None)
        context == Str(a.host) \o <<" ","-"," ">> \o Str(a.database)
        cur == get_cursor(inst, cn, hs, None, DEFAULT_DATABASE, cursorOk)
        filled == [set |-> TRUE, names |-> q.rows]
    IN  IF cache.set
        THEN [cache |-> cache, raised |-> "", message |-> <<>>, queried |-> FALSE,
              log |-> {},
              result |-> [exists |-> a.database \in cache.names, context |-> context]]
        ELSE IF cur.raised # ""
        THEN [cache |-> cache, raised |-> cur.raised, message |-> cur.message,
              queried |-> FALSE, log |-> {}, result |-> NoResult]
        ELSE IF ~q.ok
        THEN [cache |-> filled, raised |-> "", message |-> <<>>, queried |-> TRUE,
              log |-> {LogQuery} \cup close_cursor(q.closeOk),
              result |-> [exists |-> FALSE, context |-> context]]
        ELSE [cache |-> filled, raised |-> "", message |-> <<>>, queried |-> TRUE,
              log |-> close_cursor(q.closeOk),
              result |-> [exists |-> a.database \in q.rows, context |-> context]]

(***************************************************************************)
(* What the caller, the health callback and the log saw of the last call:  *)
(* the exception raised ("" when the call returned), its message, the      *)
(* calls of service_check_handler, the raw connections close() was called  *)
(* on, the failures logged, whether the catalog query was executed, the    *)
(* value returned and the raw connection of the cursor returned.           *)
(***************************************************************************)
Last(op, key, raised, message, reports, closed, log, queried, result, handle) ==
    [op |-> op, key |-> key, raised |-> raised, message |-> message,
     reports |-> reports, closed |-> closed, log |-> log, queried |-> queried,
     result |-> result, handle |-> handle]

DefaultDatabaseTarget == [db_key |-> None, db_name |-> DEFAULT_DATABASE]

DefaultConnectionTarget == [db_key |-> DEFAULT_DB_KEY, db_name |-> None]

\* open_managed_default_database and open_managed_default_connection
ManagedTargets == {DefaultDatabaseTarget, DefaultConnectionTarget}

Start ==
    /\ driver = DefaultDriver
    /\ conns = <<>>
    /\ handles = <<>>
    /\ existing_databases = NoCache
    /\ scopes = <<>>
    /\ last = Last("init", <<>>, "", <<>>, <<>>, {}, {}, FALSE, NoResult, 0)

\* the pool: one password, every dsn and database
Init ==
    /\ instance \in {i \in Instances : i.password = <<"h">>}
    /\ Start

OpenDbConnections(t, connect, staleClose) ==
    LET o == open_db_connections(instance, conns, handles, t.db_key, t.db_name,
                                 connect, staleClose)
    IN  /\ connect.ok => Len(handles) < MaxHandles
        /\ conns' = o.conns
        /\ handles' = o.handles
        /\ last' = Last("open_db_connections", conn_key_of(instance, t.db_key, t.db_name),
                        o.raised, o.message, o.reports, o.closed, o.log, FALSE, NoResult, 0)
        /\ UNCHANGED <<driver, instance, existing_databases, scopes>>

CloseDbConnections(t, outcome) ==
    LET c == close_db_connections(instance, conns, handles, t.db_key, t.db_name, outcome)
    IN  /\ conns' = c.conns
        /\ handles' = c.handles
        /\ last' = Last("close_db_connections", conn_key_of(instance, t.db_key, t.db_name),
                        c.raised, <<>>, <<>>, c.closed, c.log, FALSE, NoResult, 0)
        /\ UNCHANGED <<driver, instance, existing_databases, scopes>>

GetCursor(t, cursorOk) ==
    LET g == get_cursor(instance, conns, handles, t.db_key, t.db_name, cursorOk)
    IN  /\ last' = Last("get_cursor", conn_key_of(instance, t.db_key, t.db_name),
                        g.raised, g.message, <<>>, {}, {}, FALSE, NoResult, g.handle)
        /\ UNCHANGED <<driver, instance, conns, handles, existing_databases, scopes>>

\* close_cursor on the cursor get_cursor has just returned (last.handle is
\* the raw connection of that cursor)
CloseCursor(closeOk) ==
    /\ last.op = "get_cursor" /\ last.handle # 0
    /\ last' = Last("close_cursor", <<>>, "", <<>>, <<>>, {}, close_cursor(closeOk),
                    FALSE, NoResult, 0)
    /\ UNCHANGED <<driver, instance, conns, handles, existing_databases, scopes>>

\* with open_managed_default_database(): _check_db_exists()
CheckDatabase(connect, staleClose, cursorOk, q, outcome) ==
    LET t == DefaultDatabaseTarget
        key == conn_key_of(instance, t.db_key, t.db_name)
        o == open_db_connections(instance, conns, handles, t.db_key, t.db_name,
                                 connect, staleClose)
        p == _check_db_exists(instance, o.conns, o.handles, existing_databases, cursorOk, q)
        c == close_db_connections(instance, o.conns, o.handles, t.db_key, t.db_name, outcome)
    IN  /\ connect.ok => Len(handles) < MaxHandles
        /\ IF o.raised # ""
           THEN /\ conns' = o.conns
                /\ handles' = o.handles
                /\ existing_databases' = existing_databases
                /\ last' = Last("check_database", key, o.raised, o.message, o.reports,
                                o.closed, o.log, FALSE, NoResult, 0)
           ELSE IF p.raised # ""
           THEN /\ conns' = o.conns
                /\ handles' = o.handles
                /\ existing_databases' = p.cache
                /\ last' = Last("check_database", key, p.raised, p.message, o.reports,
                                o.closed, o.log \cup p.log, p.queried, NoResult, 0)
           ELSE /\ conns' = c.conns
                /\ handles' = c.handles
                /\ existing_databases' = p.cache
                /\ last' = Last("check_database", key, "", <<>>, o.reports,
                                o.closed \cup c.closed, o.log \cup p.log \cup c.log,
                                p.queried, p.result, 0)
        /\ UNCHANGED <<driver, instance, scopes>>

\* _open_managed_db_connections up to its yield
ManagedEnter(t, connect, staleClose) ==
    LET o == open_db_connections(instance, conns, handles, t.db_key, t.db_name,
                                 connect, staleClose)
    IN  /\ Len(scopes) < MaxScopes
        /\ connect.ok => Len(handles) < MaxHandles
        /\ conns' = o.conns
        /\ handles' = o.handles
        /\ scopes' = IF o.raised = "" THEN Append(scopes, t) ELSE scopes
        /\ last' = Last("managed_enter", conn_key_of(instance, t.db_key, t.db_name),
                        o.raised, o.message, o.reports, o.closed, o.log, FALSE, NoResult, 0)
        /\ UNCHANGED <<driver, instance, existing_databases>>

\* the caller's block ends normally: the generator resumes after its yield
ManagedExit(outcome) ==
    /\ scopes # <<>>
    /\ LET t == scopes[Len(scopes)]
           c == close_db_connections(instance, conns, handles, t.db_key, t.db_name, outcome)
       IN  /\ conns' = c.conns
           /\ handles' = c.handles
           /\ last' = Last("managed_exit", conn_key_of(instance, t.db_key, t.db_name),
                           c.raised, <<>>, <<>>, c.closed, c.log, FALSE, NoResult, 0)
    /\ scopes' = SubSeq(scopes, 1, Len(scopes) - 1)
    /\ UNCHANGED <<driver, instance, existing_databases>>

\* the scoped helper written with try/finally: the close runs although the
\* caller's block raised
ManagedAbortClosing ==
    /\ scopes # <<>>
    /\ \E outcome \in CloseOutcomes :
          LET t == scopes[Len(scopes)]
              c == close_db_connections(instance, conns, handles, t.db_key, t.db_name, outcome)
          IN  /\ conns' = c.conns
              /\ handles' = c.handles
              /\ last' = Last("managed_abort", conn_key_of(instance, t.db_key, t.db_name),
                              "CallerError", <<>>, <<>>, c.closed, c.log, FALSE, NoResult, 0)
    /\ scopes' = SubSeq(scopes, 1, Len(scopes) - 1)
    /\ UNCHANGED <<driver, instance, existing_databases>>

\* the caller's block raises: the exception is thrown into the generator at
\* its yield, which does not catch it, so the line after the yield is not run
ManagedAbort ==
    /\ scopes # <<>>
    /\ LET t == scopes[Len(scopes)]
       IN  last' = Last("managed_abort", conn_key_of(instance, t.db_key, t.db_name),
                        "CallerError", <<>>, <<>>, {}, {}, FALSE, NoResult, 0)
    /\ scopes' = SubSeq(scopes, 1, Len(scopes) - 1)
    /\ UNCHANGED <<driver, instance, conns, handles, existing_databases>>

\* the outcomes of the close() of a stale connection that a call can meet:
\* close() is only called when connect returned
StaleCloses(connect) == IF connect.ok THEN CloseOutcomes ELSE {"closed"}

\* connect returns, or raises with the one text h
PoolConnectOutcomes == {c \in ConnectOutcomes : c.ok \/ c.exc = <<"h">>}

Next ==
    \/ \E t \in Targets, connect \in PoolConnectOutcomes :
          \E staleClose \in StaleCloses(connect) :
             OpenDbConnections(t, connect, staleClose)
    \/ \E t \in Targets, outcome \in CloseOutcomes : CloseDbConnections(t, outcome)
    \/ \E t \in Targets, cursorOk \in BOOLEAN : GetCursor(t, cursorOk)
    \/ \E closeOk \in BOOLEAN : CloseCursor(closeOk)
    \/ \E t \in ManagedTargets, connect \in PoolConnectOutcomes :
          \E staleClose \in StaleCloses(connect) :
             ManagedEnter(t, connect, staleClose)
    \/ \E outcome \in CloseOutcomes : ManagedExit(outcome)
    \/ ManagedAbort

Spec == Init /\ [][Next]_vars

(***************************************************************************)
(* The messages: every password, host and exception text.  Connections     *)
(* are opened and closed for the default key, cursors asked for both.      *)
(***************************************************************************)
InitMsg ==
    /\ instance \in {i \in Instances : i.dsn = None /\ i.database = <<"d">>}
    /\ Start

NextMsg ==
    \/ \E connect \in ConnectOutcomes :
          \E staleClose \in StaleCloses(connect) :
             OpenDbConnections(DefaultConnectionTarget, connect, staleClose)
    \/ \E outcome \in CloseOutcomes :
          CloseDbConnections(DefaultConnectionTarget, outcome)
    \/ \E t \in Targets, cursorOk \in BOOLEAN : GetCursor(t, cursorOk)

SpecMsg == InitMsg /\ [][NextMsg]_vars

(***************************************************************************)
(* The existence probe: check_database, again and again.                   *)
(***************************************************************************)
\* the cursor and the catalog query are only used while the cache is unset
ProbeCursorOutcomes == IF existing_databases.set THEN {TRUE} ELSE BOOLEAN

ProbeQueryOutcomes(cursorOk) ==
    IF existing_databases.set \/ ~cursorOk
    THEN {[ok |-> TRUE, rows |-> {}, closeOk |-> TRUE]}
    ELSE QueryOutcomes

NextProbe ==
    \E connect \in PoolConnectOutcomes :
       \E staleClose \in StaleCloses(connect), cursorOk \in ProbeCursorOutcomes :
          \E q \in ProbeQueryOutcomes(cursorOk), outcome \in CloseOutcomes :
             CheckDatabase(connect, staleClose, cursorOk, q, outcome)

SpecProbe == Init /\ [][NextProbe]_vars

(***************************************************************************)
(* The drivers: every set of loaded modules, init_config and instance      *)
(* connector and provider.  The owner of the instance dict may change its  *)
(* connector and adoprovider between calls.                                *)
(***************************************************************************)
\* configured connectors: absent, the two names, an upper-case spelling, and
\* a name no driver has
ConnectorValues == {None, Adodbapi, Odbc, Upper(Adodbapi), <<"x">>}

\* configured providers: absent, a provider in both spellings, an unknown one
ProviderValues == {None, <<"M","S","O","L","E","D","B","S","Q","L">>, <<"m","s","o","l","e","d","b","s","q","l">>, <<"x">>}

InitConfigs == [connector : {None, Odbc, <<"x">>}, adoprovider : {None, <<"M","S","O","L","E","D","B","S","Q","L">>}]

\* the instance configurations of connector selection: one database and
\* password, with and without a host and a command timeout
DriverInstances ==
    [dsn : {None}, host : {None, <<"h">>}, username : {None}, password : {<<"h">>},
     database : {<<"d">>}, driver : {None}, connector : ConnectorValues,
     adoprovider : ProviderValues, command_timeout : {None, <<"3","0">>},
     connection_string : {None}]

\* the fields of the instance the pool reads
Access(inst) ==
    [dsn |-> inst.dsn, host |-> inst.host, username |-> inst.username,
     password |-> inst.password, database |-> inst.database, driver |-> inst.driver]

\* what the last call did, with the value a selector returned and the call
\* made to connect
LastOn(l, value, call) ==
    [op |-> l.op, key |-> l.key, raised |-> l.raised, message |-> l.message,
     reports |-> l.reports, closed |-> l.closed, log |-> l.log, queried |-> l.queried,
     result |-> l.result, handle |-> l.handle, value |-> value, call |-> call]

InitDriver ==
    /\ instance \in {i \in DriverInstances : i.connector = None /\ i.adoprovider = None}
    /\ \E loaded \in SUBSET Modules, init_config \in InitConfigs :
          driver = __init__(loaded, init_config, instance)
    /\ conns = <<>>
    /\ handles = <<>>
    /\ existing_databases = NoCache
    /\ scopes = <<>>
    /\ last = LastOn(Last("init", <<>>, "", <<>>, <<>>, {}, {}, FALSE, NoResult, 0),
                     None, NoCall)

\* the owner of the instance dict sets or removes its connector
SetConnector(c) ==
    /\ instance' = [instance EXCEPT !.connector = c]
    /\ last' = LastOn(Last("configure", <<>>, "", <<>>, <<>>, {}, {}, FALSE, NoResult, 0),
                      None, NoCall)
    /\ UNCHANGED <<driver, conns, handles, existing_databases, scopes>>

\* the owner of the instance dict sets or removes its adoprovider
SetAdoProvider(p) ==
    /\ instance' = [instance EXCEPT !.adoprovider = p]
    /\ last' = LastOn(Last("configure", <<>>, "", <<>>, <<>>, {}, {}, FALSE, NoResult, 0),
                      None, NoCall)
    /\ UNCHANGED <<driver, conns, handles, existing_databases, scopes>>

GetConnector ==
    LET c == get_connector(driver, instance)
    IN  /\ last' = LastOn(Last("get_connector", <<>>, c.raised, <<>>, <<>>, {}, c.log,
                               FALSE, NoResult, 0),
                          c.value, NoCall)
        /\ UNCHANGED <<driver, instance, conns, handles, existing_databases, scopes>>

GetAdoProvider ==
    LET p == _get_adoprovider(driver, instance)
    IN  /\ last' = LastOn(Last("_get_adoprovider", <<>>, p.raised, <<>>, <<>>, {}, p.log,
                               FALSE, NoResult, 0),
                          p.value, NoCall)
        /\ UNCHANGED <<driver, instance, conns, handles, existing_databases, scopes>>

\* open_db_connections with the call it makes to connect: connect can return
\* only when the call is made.  An exception raised before the call is
\* reported like one raised by connect, with the text exc
OpenDbConnectionsOn(t, connect, staleClose) ==
    LET call == ConnectCall(driver, instance, t.db_key, t.db_name)
        o == open_db_connections(Access(instance), conns, handles, t.db_key, t.db_name,
                                 connect, staleClose)
    IN  /\ connect.ok => (call.made /\ Len(handles) < MaxHandles)
        /\ conns' = o.conns
        /\ handles' = o.handles
        /\ last' = LastOn(Last("open_db_connections",
                               conn_key_of(Access(instance), t.db_key, t.db_name),
                               o.raised, o.message, o.reports, o.closed, o.log, FALSE,
                               NoResult, 0),
                          None, call)
        /\ UNCHANGED <<driver, instance, existing_databases, scopes>>

NextDriver ==
    \/ \E c \in ConnectorValues : SetConnector(c)
    \/ \E p \in ProviderValues : SetAdoProvider(p)
    \/ GetConnector
    \/ GetAdoProvider
    \/ \E connect \in PoolConnectOutcomes :
          OpenDbConnectionsOn(DefaultConnectionTarget, connect, "closed")

SpecDriver == InitDriver /\ [][NextDriver]_vars

(***************************************************************************)
(* The access info, the key and the connection strings as functions of the *)
(* instance: every field absent, empty or set, and a password with the     *)
(* character the key is joined by.                                         *)
(***************************************************************************)
AccessInstances ==
    [dsn : {None, <<>>, <<"s">>}, host : {None, <<>>, <<"h">>},
     username : {None, <<>>, <<"u">>}, password : {None, <<>>, <<"p">>, <<":">>},
     database : {None, <<>>, <<"d">>}, driver : {None, <<"v">>},
     connector : {None}, adoprovider : {None}, command_timeout : {None},
     connection_string : {None}]

\* the (db_key, db_name) pairs of this part: the default key without a name,
\* with an empty and with a given name, and a name without a key
AccessTargets ==
    [db_key : {DEFAULT_DB_KEY}, db_name : {None, <<>>, <<"n">>}]
    \cup {[db_key |-> None, db_name |-> DEFAULT_DATABASE]}

NoFields ==
    [dsn |-> None, host |-> None, username |-> None, password |-> None,
     database |-> None, driver |-> None]

\* what the last call of a function of this part was given and returned
Applied(op, t, conn_key, raised, value, fields) ==
    [op |-> op, db_key |-> t.db_key, db_name |-> t.db_name, conn_key |-> conn_key,
     raised |-> raised, value |-> value, fields |-> fields]

InitAccess ==
    /\ instance \in AccessInstances
    /\ driver = DefaultDriver
    /\ conns = <<>>
    /\ handles = <<>>
    /\ existing_databases = NoCache
    /\ scopes = <<>>
    /\ last = Applied("init", DefaultConnectionTarget, None, "", <<>>, NoFields)

GetAccessInfo(t) ==
    /\ last' = Applied("_get_access_info", t, None, "", <<>>,
                       _get_access_info(instance, t.db_key, t.db_name))
    /\ UNCHANGED <<driver, instance, conns, handles, existing_databases, scopes>>

ConnKey(t) ==
    /\ last' = Applied("_conn_key", t, None, "",
                       _conn_key(instance, t.db_key, t.db_name), NoFields)
    /\ UNCHANGED <<driver, instance, conns, handles, existing_databases, scopes>>

\* the conn_key argument of a builder: not given, or the key of the target
BuilderKeys(t) == {None, _conn_key(instance, t.db_key, t.db_name)}

ConnStringOdbc(t, conn_key) ==
    LET s == _conn_string_odbc(instance, t.db_key, conn_key, t.db_name)
    IN  /\ last' = Applied("_conn_string_odbc", t, conn_key, s.raised, s.value, NoFields)
        /\ UNCHANGED <<driver, instance, conns, handles, existing_databases, scopes>>

ConnStringAdodbapi(t, conn_key) ==
    LET s == _conn_string_adodbapi(driver, instance, t.db_key, conn_key, t.db_name)
    IN  /\ last' = Applied("_conn_string_adodbapi", t, conn_key, s.raised, s.value,
                           NoFields)
        /\ UNCHANGED <<driver, instance, conns, handles, existing_databases, scopes>>

NextAccess ==
    \/ \E t \in AccessTargets : GetAccessInfo(t)
    \/ \E t \in AccessTargets : ConnKey(t)
    \/ \E t \in AccessTargets : \E conn_key \in BuilderKeys(t) : ConnStringOdbc(t, conn_key)
    \/ \E t \in AccessTargets : \E conn_key \in BuilderKeys(t) :
          ConnStringAdodbapi(t, conn_key)

SpecAccess == InitAccess /\ [][NextAccess]_vars

(***************************************************************************)
(* The frame of the operations: opens, closes, cursors and the existence   *)
(* check on its own, for configurations whose two targets share a key and  *)
(* for configurations whose targets have a key each.                       *)
(***************************************************************************)
\* _check_db_exists called on its own
CheckDbExists(cursorOk, q) ==
    LET t == DefaultDatabaseTarget
        p == _check_db_exists(instance, conns, handles, existing_databases, cursorOk, q)
    IN  /\ existing_databases' = p.cache
        /\ last' = Last("_check_db_exists", conn_key_of(instance, t.db_key, t.db_name),
                        p.raised, p.message, <<>>, {}, p.log, p.queried, p.result, 0)
        /\ UNCHANGED <<driver, instance, conns, handles, scopes>>

InitFrame ==
    /\ instance \in {i \in Instances : i.password = <<"h">> /\ i.dsn = None}
    /\ Start

NextFrame ==
    \/ \E t \in Targets, connect \in PoolConnectOutcomes :
          \E staleClose \in StaleCloses(connect) :
             OpenDbConnections(t, connect, staleClose)
    \/ \E t \in Targets, outcome \in CloseOutcomes : CloseDbConnections(t, outcome)
    \/ \E t \in Targets, cursorOk \in BOOLEAN : GetCursor(t, cursorOk)
    \/ \E closeOk \in BOOLEAN : CloseCursor(closeOk)
    \/ \E cursorOk \in ProbeCursorOutcomes :
          \E q \in ProbeQueryOutcomes(cursorOk) : CheckDbExists(cursorOk, q)

SpecFrame == InitFrame /\ [][NextFrame]_vars

(***************************************************************************)
(* check_database inside a scoped session of the default connection.       *)
(***************************************************************************)
NextNested ==
    \/ \E connect \in PoolConnectOutcomes :
          \E staleClose \in StaleCloses(connect) :
             ManagedEnter(DefaultConnectionTarget, connect, staleClose)
    \/ \E outcome \in CloseOutcomes : ManagedExit(outcome)
    \/ \E connect \in PoolConnectOutcomes :
          \E staleClose \in StaleCloses(connect), cursorOk \in ProbeCursorOutcomes :
             \E q \in ProbeQueryOutcomes(cursorOk), outcome \in CloseOutcomes :
                CheckDatabase(connect, staleClose, cursorOk, q, outcome)
    \/ \E cursorOk \in BOOLEAN : GetCursor(DefaultConnectionTarget, cursorOk)

SpecNested == Init /\ [][NextNested]_vars

(***************************************************************************)
(* Properties.                                                             *)
(***************************************************************************)
\* get_cursor has just been called for a key the pool has no entry for
CursorMiss == last.op = "get_cursor" /\ last.key \notin DOMAIN conns

\* C1, as stated: get_cursor for a key without a pool entry raises
\* SQLConnectionError, and the message contains the configured host, never
\* the configured password (a non-empty string) and never the connection key.
C1_MissMessageHidesPassword ==
    CursorMiss =>
       /\ last.raised = "SQLConnectionError"
       /\ Contains(last.message, Str(instance.host))
       /\ Truthy(instance.password) => ~Contains(last.message, instance.password)
       /\ ~Contains(last.message, last.key)

\* C1, amended: get_cursor for a key without a pool entry raises
\* SQLConnectionError with the fixed text followed by the configured host and
\* nothing else: the message never contains the connection key, and it contains
\* the password only where the fixed text and the host already spell it.
C1_MissMessageIsHostOnly ==
    CursorMiss =>
       /\ last.raised = "SQLConnectionError"
       /\ last.message = CursorMissPrefix \o Str(instance.host)
       /\ Contains(last.message, Str(instance.host))
       /\ ~Contains(last.message, last.key)
       /\ (/\ instance.password # None
           /\ ~Contains(CursorMissPrefix \o Str(instance.host), instance.password))
          => ~Contains(last.message, instance.password)

\* a miss after a connection was opened and closed, with a password the
\* message does not spell
C1_Witness ==
    /\ CursorMiss
    /\ last.raised = "SQLConnectionError"
    /\ instance.password = <<"*">>
    /\ Len(handles) > 0

\* C2, as stated: when open_db_connections fails, neither the message of the
\* CRITICAL report nor the message of the SQLConnectionError contains the
\* configured password (a password that is a non-empty string).
C2_FailureMessageHidesPassword ==
    (/\ last.op = "open_db_connections"
     /\ last.raised = "SQLConnectionError"
     /\ Truthy(instance.password))
    => /\ ~Contains(last.message, instance.password)
       /\ \A i \in 1..Len(last.reports) :
             ~Contains(last.reports[i].message, instance.password)

\* C3, as stated: get_cursor for K right after close_db_connections for K
\* raises SQLConnectionError, whatever close() did, and close_db_connections
\* never raises (so neither does a second call in a row).
C3_CursorAfterCloseFails ==
    [][/\ (/\ last.op = "close_db_connections"
           /\ last'.op = "get_cursor"
           /\ last'.key = last.key)
          => last'.raised = "SQLConnectionError"
       /\ last'.op = "close_db_connections" => last'.raised = ""]_vars

\* h is the raw connection the pool maps for the key it was opened under
Pooled(cn, hs, h) == hs[h].key \in DOMAIN cn /\ cn[hs[h].key] = h

\* the call just made was open_db_connections, alone or from a scoped helper
Opened(l) == l.op \in {"open_db_connections", "managed_enter"}

\* C4, as stated: every raw connection that is still open is the one the pool
\* maps for its key.
C4_OpenHandlesArePooled ==
    \A h \in 1..Len(handles) :
       handles[h].state # "closed" => Pooled(conns, handles, h)

\* C4, amended: every raw connection that is still open is the one the pool
\* maps for its key, or one whose close() was called and raised; and a
\* successful open on a key already present calls close() on the stale
\* connection, swallows its failure and stores the new connection.
C4_OpenHandlesArePooledOrCloseRaised ==
    [][/\ \A h \in 1..Len(handles') :
             handles'[h].state = "open" => Pooled(conns', handles', h)
       /\ \A k \in DOMAIN conns' : handles'[conns'[k]].key = k
       /\ (Opened(last') /\ last'.raised = "" /\ last'.key \in DOMAIN conns)
          => /\ last'.closed = {conns[last'.key]}
             /\ handles'[conns[last'.key]].state # "open"
             /\ conns'[last'.key] = Len(handles')
             /\ Len(handles') = Len(handles) + 1]_vars

\* a replaced connection whose close() raised is still open outside the pool
C4_Witness ==
    /\ Opened(last) /\ last.raised = ""
    /\ \E h \in last.closed :
          handles[h].state = "close_raised" /\ ~Pooled(conns, handles, h)

\* C5, as stated: while K has a live pool entry, a further successful
\* open_db_connections for K keeps the same raw connection in the pool.
C5_OpenReusesConnection ==
    [][(/\ last'.op = "open_db_connections" /\ last'.raised = ""
        /\ last'.key \in DOMAIN conns
        /\ handles[conns[last'.key]].state = "open")
       => conns'[last'.key] = conns[last'.key]]_vars

\* C5, amended: a raw connection is not reused: every successful
\* open_db_connections stores a connection the driver has just made, after
\* calling close() on the one the pool had for the key; only a failed
\* open_db_connections keeps the stored connection, and leaves it open.
C5_OpenReplacesConnection ==
    [][last'.op = "open_db_connections" =>
          IF last'.raised = ""
          THEN /\ Len(handles') = Len(handles) + 1
               /\ conns'[last'.key] = Len(handles')
               /\ conns'[last'.key] \notin {conns[k] : k \in DOMAIN conns}
               /\ last'.key \in DOMAIN conns => conns[last'.key] \in last'.closed
          ELSE conns' = conns /\ handles' = handles /\ last'.closed = {}]_vars

\* the second connection opened for a key has replaced the first, now closed
C5_Witness ==
    /\ last.op = "open_db_connections" /\ last.raised = ""
    /\ Len(handles) = 2
    /\ handles[1].key = last.key /\ handles[1].state = "closed"
    /\ conns[last.key] = 2 /\ last.closed = {1}

\* the key of the innermost scoped session
ScopeKey == conn_key_of(instance, scopes[Len(scopes)].db_key, scopes[Len(scopes)].db_name)

\* C6: for both scoped helpers, when the caller's block ends normally
\* close_db_connections runs for the key of the session (close() is called on
\* its entry, which is evicted unless close() raised); when the block raises
\* nothing is closed and the pool keeps its entry; and a successful open for
\* that key right after calls close() on the connection left there and
\* replaces it by a new one.
C6_ScopedSessionClosesOnlyOnNormalExit ==
    [][/\ last'.op = "managed_exit" =>
             /\ last'.key = ScopeKey /\ last'.raised = ""
             /\ scopes[Len(scopes)] \in ManagedTargets
             /\ ScopeKey \in DOMAIN conns =>
                   /\ last'.closed = {conns[ScopeKey]}
                   /\ \/ conns' = Evict(conns, ScopeKey)
                      \/ conns' = conns /\ LogClose \in last'.log
       /\ last'.op = "managed_abort" =>
             /\ last'.key = ScopeKey
             /\ conns' = conns /\ handles' = handles /\ last'.closed = {}
       /\ (/\ last.op = "managed_abort" /\ last.key \in DOMAIN conns
           /\ Opened(last') /\ last'.raised = "" /\ last'.key = last.key)
          => /\ last'.closed = {conns[last.key]}
             /\ handles'[conns[last.key]].state # "open"
             /\ conns'[last.key] = Len(handles')
             /\ Len(handles') = Len(handles) + 1]_vars

\* the block of a scoped session raised and left its open connection in the pool
C6_Witness ==
    /\ last.op = "managed_abort"
    /\ last.key \in DOMAIN conns
    /\ handles[conns[last.key]].state = "open"
    /\ scopes = <<>>

\* the context string of check_database
ProbeContext ==
    LET a == _get_access_info(instance, DEFAULT_DB_KEY, None)
    IN  Str(a.host) \o <<" ","-"," ">> \o Str(a.database)

\* C7, as stated: when the catalog query fails, check_database returns
\* (False, context) without raising and the existence cache stays unset.
C7_FailedQueryLeavesCacheUnset ==
    (last.op = "check_database" /\ LogQuery \in last.log) =>
       /\ last.raised = ""
       /\ last.result = [exists |-> FALSE, context |-> ProbeContext]
       /\ existing_databases = NoCache

\* C8: once the existence cache is set, check_database never executes the
\* catalog query and never changes the cache, and every call that returns
\* gives (database in the cached names, "{host} - {database}"): with host h
\* and database d that is (False, "h - d") when the cached names are master.
C8_CachedProbeDoesNotRequery ==
    [][(existing_databases.set /\ last'.op = "check_database") =>
          /\ ~last'.queried
          /\ existing_databases' = existing_databases
          /\ last'.raised = "" =>
                /\ last'.result.exists =
                      (_get_access_info(instance, DEFAULT_DB_KEY, None).database
                          \in existing_databases.names)
                /\ last'.result.context = ProbeContext
                /\ (/\ instance.dsn = None /\ instance.host = <<"h">>
                    /\ instance.database = <<"d">>
                    /\ existing_databases.names = {DEFAULT_DATABASE})
                   => last'.result =
                         [exists |-> FALSE, context |-> <<"h"," ","-"," ","d">>]]_vars

\* a call answered True from the cached names, without a query
C8_Witness ==
    /\ last.op = "check_database" /\ last.raised = ""
    /\ ~last.queried
    /\ existing_databases = [set |-> TRUE, names |-> {DEFAULT_DATABASE}]
    /\ last.result.exists

\* C9: every open_db_connections call, alone or from a scoped helper, calls
\* the health callback exactly once: OK with host and database and no
\* message when it returns, CRITICAL with the scrubbed message of the
\* SQLConnectionError when it raises; get_cursor, close_db_connections and
\* close_cursor never call it.
C9_OneReportPerOpen ==
    /\ Opened(last) =>
          /\ Len(last.reports) = 1
          /\ \E t \in Targets :
                LET a == _get_access_info(instance, t.db_key, t.db_name)
                    r == last.reports[1]
                IN  /\ last.key = conn_key_of(instance, t.db_key, t.db_name)
                    /\ r.host = a.host /\ r.database = a.database
                    /\ IF last.raised = ""
                       THEN r.status = OK /\ r.message = None
                       ELSE /\ last.raised = "SQLConnectionError"
                            /\ r.status = CRITICAL
                            /\ r.message = last.message
                            /\ \E exc \in ExcTexts :
                                  r.message = ConnectFailMessages[<<instance, t, exc>>]
    /\ last.op \in {"get_cursor", "close_db_connections", "close_cursor",
                    "managed_exit", "managed_abort"}
       => last.reports = <<>>

\* a failed open has told the health callback CRITICAL, once
C9_Witness ==
    /\ Opened(last) /\ last.raised = "SQLConnectionError"
    /\ Len(last.reports) = 1 /\ last.reports[1].status = CRITICAL
    /\ last.reports[1].message = last.message

\* C10: close_db_connections never raises; for a key without an entry it
\* leaves the pool and the raw connections alone; for a key with an entry it
\* calls close() on it, evicts it when close() returned, and keeps it mapped
\* to the same raw connection when close() raised.
C10_CloseNeverRaises ==
    [][last'.op = "close_db_connections" =>
          /\ last'.raised = ""
          /\ IF last'.key \notin DOMAIN conns
             THEN conns' = conns /\ handles' = handles /\ last'.closed = {}
             ELSE /\ last'.closed = {conns[last'.key]}
                  /\ IF LogClose \in last'.log
                     THEN conns' = conns
                     ELSE /\ conns' = Evict(conns, last'.key)
                          /\ handles'[conns[last'.key]].state = "closed"]_vars

\* close() raised and the entry is still in the pool
C10_Witness ==
    /\ last.op = "close_db_connections"
    /\ LogClose \in last.log
    /\ last.key \in DOMAIN conns
    /\ last.closed = {conns[last.key]}

\* the module whose connect serves a connector name
ModuleOf(connector) == IF Lower(connector) = Adodbapi THEN "adodbapi" ELSE "pyodbc"

\* C11, as stated, for the objects that have a driver at all: the connector
\* __init__ keeps is one of valid_connectors, so is the connector
\* get_connector returns, and open_db_connections calls connect on the module
\* of the connector get_connector returns
C11_ConnectorIsAvailable ==
    driver.valid_connectors # {} =>
       /\ Lower(driver.connector) \in driver.valid_connectors
       /\ (last.op = "get_connector" /\ last.raised = ""
              => Lower(last.value) \in driver.valid_connectors)
       /\ (last.op = "open_db_connections" /\ last.call.made
              => /\ last.call.module \in driver.loaded
                 /\ last.call.module = ModuleOf(get_connector(driver, instance).value))

\* C12: every call of get_connector and of _get_adoprovider decides from the
\* instance as it is at that call.  An override that is not supported gives
\* the default the object holds and does not raise; a supported override, when
\* the call returns, is the result
C12_OverridesValidatedOnEveryCall ==
    [][/\ last'.op = "get_connector" =>
             /\ instance.connector = None => last'.value = driver.connector
             /\ (instance.connector # None
                 /\ Lower(instance.connector) \notin driver.valid_connectors)
                   => last'.raised = "" /\ last'.value = driver.connector
             /\ (instance.connector # None
                 /\ Lower(instance.connector) \in driver.valid_connectors
                 /\ last'.raised = "")
                   => last'.value = instance.connector
       /\ last'.op = "_get_adoprovider" =>
             /\ (instance.adoprovider # None
                 /\ Upper(instance.adoprovider) \notin valid_adoproviders)
                   => last'.raised = "" /\ last'.value = driver.adoprovider
             /\ (instance.adoprovider # None
                 /\ Upper(instance.adoprovider) \in valid_adoproviders
                 /\ last'.raised = "")
                   => last'.value = instance.adoprovider]_vars

\* get_connector has replaced an unsupported override of an object whose own
\* connector is another one that was configured
C12_Witness ==
    /\ last.op = "get_connector"
    /\ instance.connector = <<"x">>
    /\ driver.connector = Odbc
    /\ last.value = Odbc
    /\ LogInvalidConnector \in last.log

\* C18, as stated: the call to connect passes the configured command timeout
\* and autocommit set to true
C18_ConnectPassesTimeoutAndAutocommit ==
    last.op = "open_db_connections" /\ last.call.made =>
       /\ "timeout" \in last.call.keywords
       /\ last.call.timeout =
             (IF instance.command_timeout = None THEN DEFAULT_COMMAND_TIMEOUT
              ELSE ParseInt(instance.command_timeout))
       /\ "autocommit" \in last.call.keywords
       /\ last.call.autocommit

\* C13, as stated: the key split on ":" is the six fields of the access info
C13_KeySplitsIntoAccessInfo ==
    last.op = "_conn_key" =>
       LET a == _get_access_info(instance, last.db_key, last.db_name)
       IN  Split(last.value, ":")
              = <<a.dsn, a.host, a.username, a.password, a.database, a.driver>>

\* C15: _get_access_info changes nothing and gives the configured dsn,
\* username and password as they are; the database is db_name when one is
\* given and the configured value of db_key otherwise; without a dsn a host,
\* database or driver that is absent or empty is its default, and with a dsn
\* the three are as configured
C15_AccessInfoDefaults ==
    [][last'.op = "_get_access_info" =>
          LET f == last'.fields
              database == IF last'.db_name # None THEN last'.db_name
                          ELSE IF last'.db_key = DEFAULT_DB_KEY THEN instance.database
                          ELSE None
              Or(x, default) == IF x = None \/ x = <<>> THEN default ELSE x
          IN  /\ UNCHANGED <<driver, instance, conns, handles, existing_databases, scopes>>
              /\ f.dsn = instance.dsn
              /\ f.username = instance.username
              /\ f.password = instance.password
              /\ (instance.dsn = None \/ instance.dsn = <<>>)
                    => /\ f.host = Or(instance.host, DefaultHost)
                       /\ f.database = Or(database, DEFAULT_DATABASE)
                       /\ f.driver = Or(instance.driver, DEFAULT_DRIVER)
              /\ (instance.dsn # None /\ instance.dsn # <<>>)
                    => /\ f.host = instance.host
                       /\ f.database = database
                       /\ f.driver = instance.driver]_vars

\* a given name has replaced the configured database, and the absent host
\* and driver have their defaults
C15_Witness ==
    /\ last.op = "_get_access_info"
    /\ instance.dsn = None
    /\ instance.host = None
    /\ instance.database = <<"d">>
    /\ last.db_name = <<"n">>
    /\ last.fields.database = <<"n">>
    /\ last.fields.host = DefaultHost
    /\ last.fields.driver = DEFAULT_DRIVER

\* a dsn is configured and the absent host, database and driver stay absent
C15_WitnessDsn ==
    /\ last.op = "_get_access_info"
    /\ instance.dsn = <<"s">>
    /\ last.fields.host = None
    /\ last.fields.database = None
    /\ last.fields.driver = None

\* C16: built from the instance, the odbc string has a UID segment exactly
\* when the username is not absent or empty and a PWD segment exactly when the
\* password is; the adodbapi string has the integrated-security marker
\* exactly when both are absent or empty, and then no User ID and no Password
C16_CredentialSegments ==
    LET present(x) == x # None /\ x # <<>>
        u == instance.username
        p == instance.password
    IN  /\ (last.op = "_conn_string_odbc" /\ last.conn_key = None) =>
              /\ last.raised = ""
              /\ present(u) => Contains(last.value, <<"U","I","D","=">> \o u \o <<";">>)
              /\ ~present(u) => ~Contains(last.value, <<"U","I","D","=">>)
              /\ present(p) => Contains(last.value, <<"P","W","D","=">> \o p \o <<";">>)
              /\ ~present(p) => ~Contains(last.value, <<"P","W","D","=">>)
        /\ (last.op = "_conn_string_adodbapi" /\ last.conn_key = None) =>
              /\ last.raised = ""
              /\ Contains(last.value, IntegratedSecurity) <=> (~present(u) /\ ~present(p))
              /\ present(u) <=> Contains(last.value, <<"U","s","e","r"," ","I","D","=">>)
              /\ present(p) <=> Contains(last.value, <<"P","a","s","s","w","o","r","d","=">>)

\* the adodbapi string of an instance without username and password
C16_Witness ==
    /\ last.op = "_conn_string_adodbapi"
    /\ last.conn_key = None
    /\ instance.username = None
    /\ instance.password = <<>>
    /\ Contains(last.value, IntegratedSecurity)

\* the odbc string of an instance with a username and no password
C16_WitnessOdbc ==
    /\ last.op = "_conn_string_odbc"
    /\ last.conn_key = None
    /\ instance.username = <<"u">>
    /\ instance.password = None
    /\ Contains(last.value, <<"U","I","D","=","u",";">>)

\* C14, as stated: scrubbing the message of a failed open a second time gives
\* the message again (a password that is a non-empty string)
C14_ScrubIsIdempotent ==
    (/\ last.op = "open_db_connections"
     /\ last.raised = "SQLConnectionError"
     /\ Truthy(instance.password))
    => Scrub(instance, last.message) = last.message

\* C17, as stated: a public operation raises nothing or a SQLConnectionError,
\* and a SQLConnectionError comes from an open that failed or from a cursor
\* asked for a key that has no entry (managed_abort passes on the exception of
\* the caller's own block, which is not a failure of the operation)
C17_OnlyConnectionErrorsAreRaised ==
    last.op # "managed_abort" =>
       /\ last.raised \in {"", "SQLConnectionError"}
       /\ last.raised = "SQLConnectionError" =>
             \/ last.op \in {"open_db_connections", "managed_enter"}
             \/ last.op = "get_cursor" /\ last.key \notin DOMAIN conns

\* C19: an open or a close for a key leaves the entries of the other keys
\* and their raw connections as they are; an open that fails leaves the whole
\* pool and every raw connection as they are; get_cursor, close_cursor and an
\* existence check answered from the cache leave the pool as it is
C19_OperationsKeepTheRestOfThePool ==
    [][/\ last'.op \in {"open_db_connections", "close_db_connections"} =>
             /\ DOMAIN conns' \ {last'.key} = DOMAIN conns \ {last'.key}
             /\ \A k \in DOMAIN conns \ {last'.key} :
                   /\ conns'[k] = conns[k]
                   /\ handles'[conns[k]] = handles[conns[k]]
                   /\ conns[k] \notin last'.closed
       /\ (last'.op = "open_db_connections" /\ last'.raised # "") =>
             /\ conns' = conns
             /\ handles' = handles
             /\ last'.closed = {}
       /\ last'.op \in {"get_cursor", "close_cursor"} =>
             conns' = conns /\ handles' = handles
       /\ (last'.op = "_check_db_exists" /\ existing_databases.set) =>
             conns' = conns /\ handles' = handles]_vars

\* an open has failed for a key whose entry is still there and open, while
\* the pool holds the entry of another key
C19_Witness ==
    /\ last.op = "open_db_connections"
    /\ last.raised = "SQLConnectionError"
    /\ last.key \in DOMAIN conns
    /\ handles[conns[last.key]].state = "open"
    /\ \E k \in DOMAIN conns : k # last.key

\* C20, as stated: check_database run inside a scoped session of the default
\* connection leaves the entry of that session and its raw connection as they
\* are, and get_cursor for the default connection right after it finds it
C20_CheckDatabaseKeepsOuterSession ==
    [][LET k == conn_key_of(instance, DEFAULT_DB_KEY, None)
       IN  (/\ scopes = <<DefaultConnectionTarget>>
            /\ k \in DOMAIN conns
            /\ handles[conns[k]].state = "open")
           => /\ last'.op = "check_database" =>
                    /\ k \in DOMAIN conns'
                    /\ conns'[k] = conns[k]
                    /\ handles'[conns[k]].state = "open"
              /\ (last.op = "check_database" /\ last'.op = "get_cursor")
                    => last'.raised # "SQLConnectionError"]_vars

====
